---- MODULE Spec2Model ----
(***************************************************************************)
(* Flash programming planner and flash-algorithm driver of flash-rs.       *)
(*                                                                         *)
(*   flash.rs      Flash          the driver and its register-call protocol *)
(*   builder.rs    FlashBuilder   add_data / program                        *)
(*   load.rs       FlashLoader    add_data / commit, Ranges                 *)
(*   memory_map.rs MemoryMap, MemoryRegion                                  *)
(*                                                                         *)
(* The debug target (crate::target::Target) is not part of the sources; it *)
(* is simulated: a memory, a register file, a run state and an access log. *)
(* Weights are f32 seconds in the source; here they are integers in units  *)
(* of 1/DATA_TRANSFER_B_PER_S seconds, which keeps every comparison the    *)
(* code makes exact for the sizes used.                                    *)
(***************************************************************************)
EXTENDS Integers, Sequences, FiniteSets, TLC

VARIABLES
    target,     \* the simulated debug target
    flash,      \* a Flash driver driven directly (SpecFlash)
    call,       \* the last driver call made on flash and what it returned
    builder,    \* a FlashBuilder driven directly (SpecBuilder)
    addres,     \* the last FlashBuilder.add_data call and what it returned
    run,        \* the record of the last FlashBuilder.program call
    loader,     \* a FlashLoader (SpecLoader)
    commits,    \* the record of the last FlashLoader.commit call
    iter        \* a Ranges iterator and what it has returned (SpecRanges)

vars == <<target, flash, call, builder, addres, run, loader, commits, iter>>

----------------------------------------------------------------------------
(* Bounds *)

MaxPolls == 1       \* get_state polls that still see the target running
MaxData == 2        \* longest byte slice handed to add_data
MaxOps == 2         \* add_data calls accepted per builder before program
MaxFail == 3        \* program: the algorithm invocation that fails is among the first MaxFail
MaxAddress == 5     \* largest byte address in a list handed to ranges
MaxNone == 2        \* next calls made on a Ranges iterator after it first returned None

----------------------------------------------------------------------------
(* Small helpers *)

Min(a, b) == IF a < b THEN a ELSE b

Range(s) == {s[i] : i \in 1..Len(s)}

RECURSIVE SeqSum(_)
SeqSum(s) == IF s = <<>> THEN 0 ELSE Head(s) + SeqSum(Tail(s))

----------------------------------------------------------------------------
(* flash_algorithm.rs: the algorithm descriptor.  The source's descriptor  *)
(* is a stub answering 0 for every key; the driver is generic over the     *)
(* values, so the descriptor is an input drawn from Algorithms.            *)

NoArg == -1     \* Option::None of an argument word

Algorithm(load) ==
    [load_address |-> load, static_base |-> load + 64, begin_stack |-> load + 96,
     begin_data |-> load + 128,
     pc_init |-> load + 4, pc_uninit |-> load + 8, pc_program_page |-> load + 12,
     pc_erase_sector |-> load + 16, pc_erase_all |-> load + 20]

Algorithms == {Algorithm(200000), Algorithm(200001)}

get_address(algo, location) ==
    CASE location = "LoadAddress" -> algo.load_address
      [] location = "StaticBase" -> algo.static_base
      [] location = "BeginStack" -> algo.begin_stack
      [] location = "BeginData" -> algo.begin_data

get_instruction(algo, location) ==
    CASE location = "PCInit" -> algo.pc_init
      [] location = "PCUninit" -> algo.pc_uninit
      [] location = "PCProgramPage" -> algo.pc_program_page
      [] location = "PCEraseSector" -> algo.pc_erase_sector
      [] location = "PCEraseAll" -> algo.pc_erase_all

----------------------------------------------------------------------------
(* memory_map.rs *)

erased_byte_value == 0

Region(typ, start, length, blocksize) ==
    [typ |-> typ, start |-> start, length |-> length, blocksize |-> blocksize]

end(r) == r.start + r.length

contains_address(r, address) == (address >= r.start) /\ (address <= end(r))

is_erased(d) == \A i \in 1..Len(d) : d[i] = erased_byte_value

\* common.rs
same(d1, d2) ==
    IF Len(d1) # Len(d2) THEN FALSE
    ELSE \A i \in 1..Len(d1) : d1[i] = d2[i]

----------------------------------------------------------------------------
(* The simulated target (spec section 6, Target interface).  mem holds the *)
(* flash bytes that differ from 0 as <<address, value>> pairs; buf is the  *)
(* RAM block last written with write_memory_block8; log is the sequence of *)
(* accesses the host made.  The algorithm the target runs when resumed is  *)
(* part of the simulation: it acts on the registers it was given.          *)

ErrCode == 1    \* the non-zero return code a failing algorithm call leaves in r0

RegNames == {"pc", "r0", "r1", "r2", "r3", "r9", "sp", "lr"}

NewTarget(algo, sector, mem) ==
    [state |-> "RUNNING", mode |-> "NONE", loaded |-> FALSE,
     regs |-> [n \in RegNames |-> 0],
     buf_addr |-> 0, buf |-> <<>>, mem |-> mem,
     algo |-> algo, sector |-> sector,
     calls |-> 0, fail_at |-> 0, polls |-> 0, log |-> <<>>]

\* one byte of a flash image
FlashByte(mem, a) ==
    IF \E p \in mem : p[1] = a THEN (CHOOSE p \in mem : p[1] = a)[2] ELSE 0

\* one byte of target memory: the RAM buffer, or flash
ReadByte(t, a) ==
    IF a >= t.buf_addr /\ a < t.buf_addr + Len(t.buf) THEN t.buf[a - t.buf_addr + 1]
    ELSE FlashByte(t.mem, a)

\* flash after the bytes d have been programmed at address a
WriteFlash(mem, a, d) ==
    {p \in mem : p[1] < a \/ p[1] >= a + Len(d)}
        \cup {<<a + i - 1, d[i]>> : i \in {j \in 1..Len(d) : d[j] # 0}}

\* what the algorithm entry at regs.pc does to flash when it succeeds
AlgoEffect(t) ==
    LET pc == t.regs["pc"]
        r0 == t.regs["r0"]
        r1 == t.regs["r1"]
        r2 == t.regs["r2"]
    IN  CASE pc = t.algo.pc_erase_all -> {}
          [] pc = t.algo.pc_erase_sector ->
                LET base == r0 - (r0 % t.sector)
                IN  {p \in t.mem : p[1] < base \/ p[1] >= base + t.sector}
          [] pc = t.algo.pc_program_page ->
                WriteFlash(t.mem, r0, [i \in 1..r1 |-> ReadByte(t, r2 + i - 1)])
          [] OTHER -> t.mem

halt(t) == [t EXCEPT !.state = "HALTED", !.log = Append(@, <<"halt">>)]

set_target_state(t, tag) ==
    [t EXCEPT !.mode = tag, !.log = Append(@, <<"set_target_state", tag>>)]

write_memory_block32(t, addr, words) ==
    [t EXCEPT !.loaded = TRUE, !.log = Append(@, <<"write_memory_block32", addr>>)]

write_memory_block8(t, addr, data) ==
    [t EXCEPT !.buf_addr = addr, !.buf = data,
              !.log = Append(@, <<"write_memory_block8", addr, data>>)]

read_memory_block8(t, addr, len) == [i \in 1..len |-> ReadByte(t, addr + i - 1)]

write_core_registers_raw(t, list) ==
    [t EXCEPT !.regs = [n \in RegNames |->
                            IF \E i \in 1..Len(list) : list[i][1] = n
                            THEN list[CHOOSE i \in 1..Len(list) : list[i][1] = n][2]
                            ELSE @[n]],
              !.log = Append(@, <<"write_core_registers_raw", list>>)]

\* the target runs the entry at pc to its breakpoint and leaves the code in r0
resume(t) ==
    LET rc == IF t.calls + 1 = t.fail_at THEN ErrCode ELSE 0
    IN  [t EXCEPT !.state = "RUNNING",
                  !.calls = @ + 1,
                  !.mem = IF rc = 0 THEN AlgoEffect(t) ELSE @,
                  !.regs = [@ EXCEPT !["r0"] = rc],
                  !.log = Append(@, <<"resume">>)]

\* one get_state poll; the first t.polls polls of a call see RUNNING
get_state(t, k) ==
    LET st == IF k <= t.polls THEN "RUNNING" ELSE "HALTED"
    IN  [t EXCEPT !.state = st, !.log = Append(@, <<"get_state", st>>)]

read_core_register(t, name) ==
    [t EXCEPT !.log = Append(@, <<"read_core_register", name, t.regs[name]>>)]

----------------------------------------------------------------------------
(* flash.rs: the Flash driver.  A driver operation takes the driver f and  *)
(* the target t and yields [f, t, res]: the driver and the target after    *)
(* the call and the Result it returned.                                    *)

Operations == {"Erase", "Program", "Verify"}

\* `operation as u32`
OpCode(o) ==
    CASE o = "Erase" -> 1 [] o = "Program" -> 2 [] o = "Verify" -> 3 [] o = "None" -> 4

DEFAULT_PAGE_PROGRAM_WEIGHT == 130   \* milliseconds
DEFAULT_PAGE_ERASE_WEIGHT == 48
DEFAULT_CHIP_ERASE_WEIGHT == 174

Ok == [tag |-> "Ok", code |-> 0, address |-> 0, op |-> "None"]
Err(tag, code, address) == [tag |-> tag, code |-> code, address |-> address, op |-> "None"]
WrongOperationOngoing(o) == [tag |-> "WrongOperationOngoing", code |-> 0, address |-> 0, op |-> o]

NewFlash(region, algo, erase_all) ==
    [region |-> region, flash_algorithm |-> algo,
     is_erase_all_supported |-> erase_all,
     is_double_buffering_supported |-> FALSE,
     did_prepare_target |-> FALSE,
     active_operation |-> "None"]

get_page_info(f, address) ==
    IF ~contains_address(f.region, address) THEN [some |-> FALSE]
    ELSE [some |-> TRUE,
          base_addr |-> address - (address % f.region.blocksize),
          size |-> f.region.blocksize,
          erase_weight |-> DEFAULT_PAGE_ERASE_WEIGHT,
          program_weight |-> DEFAULT_PAGE_PROGRAM_WEIGHT]

get_flash_info(f) ==
    [rom_start |-> f.region.start, erase_weight |-> DEFAULT_CHIP_ERASE_WEIGHT,
     crc_supported |-> FALSE]

OptReg(name, v) == IF v = NoArg THEN <<>> ELSE <<<<name, v>>>>

call_function(f, t, pc, r0, r1, r2, r3, init) ==
    LET instruction_list ==
            <<<<"pc", pc>>>>
            \o OptReg("r0", r0)
            \o OptReg("r1", r1)
            \o OptReg("r2", r0)          \* `if let Some(r2) = r0`
            \o OptReg("r3", r3)
            \o (IF init THEN <<<<"r9", get_address(f.flash_algorithm, "StaticBase")>>,
                               <<"sp", get_address(f.flash_algorithm, "BeginStack")>>>>
                ELSE <<>>)
            \o <<<<"lr", get_address(f.flash_algorithm, "LoadAddress") + 1>>>>
    IN  resume(write_core_registers_raw(t, instruction_list))

RECURSIVE PollUntilHalted(_, _)
PollUntilHalted(t, k) ==
    LET t1 == get_state(t, k)
    IN  IF t1.state = "RUNNING" THEN PollUntilHalted(t1, k + 1) ELSE t1

\* yields the target after the wait and the value read from r0
wait_for_completion(t) ==
    LET t1 == PollUntilHalted(t, 1)
    IN  [t |-> read_core_register(t1, "r0"), r0 |-> t1.regs["r0"]]

\* a driver that starts the entry and takes r0 without waiting for the target
call_function_no_wait(f, t, pc, r0, r1, r2, r3, init) ==
    LET t1 == call_function(f, t, pc, r0, r1, r2, r3, init)
    IN  [t |-> t1, r0 |-> t1.regs["r0"]]

call_function_and_wait(f, t, pc, r0, r1, r2, r3, init) ==
    wait_for_completion(call_function(f, t, pc, r0, r1, r2, r3, init))

uninit(f, t) ==
    IF f.active_operation = "None"
    THEN [f |-> [f EXCEPT !.active_operation = "None"], t |-> t, res |-> Ok]
    ELSE LET w == call_function_and_wait(f, t,
                      get_instruction(f.flash_algorithm, "PCUninit"),
                      OpCode(f.active_operation), NoArg, NoArg, NoArg, FALSE)
         IN  IF w.r0 # 0
             THEN [f |-> f, t |-> w.t, res |-> Err("Uninit", w.r0, 0)]
             ELSE [f |-> [f EXCEPT !.active_operation = "None"], t |-> w.t, res |-> Ok]

\* a cleanup that keeps the cached target preparation
cleanup_keeps_preparation(f, t) == uninit(f, t)

cleanup(f, t) ==
    LET u == uninit(f, t)
    IN  IF u.res.tag # "Ok" THEN u
        ELSE [f |-> [u.f EXCEPT !.did_prepare_target = FALSE], t |-> u.t, res |-> Ok]

\* an init that sets the target state and copies the algorithm every time
init_always_prepares(f, t, operation) ==
    LET address == get_flash_info(f).rom_start
        clock == 0
        t2 == write_memory_block32(set_target_state(halt(t), "PROGRAM"),
                  get_address(f.flash_algorithm, "LoadAddress"), <<>>)
        f2 == [f EXCEPT !.did_prepare_target = TRUE]
        w == call_function_and_wait(f2, t2,
                 get_instruction(f.flash_algorithm, "PCInit"),
                 address, clock, OpCode(operation), NoArg, TRUE)
    IN  IF w.r0 # 0
        THEN [f |-> f2, t |-> w.t, res |-> Err("Init", w.r0, 0)]
        ELSE [f |-> [f2 EXCEPT !.active_operation = operation], t |-> w.t, res |-> Ok]

\* an init that records the operation even when the Init entry failed
init_claiming_on_failure(f, t, operation) ==
    LET t1 == halt(t)
        t2 == IF ~f.did_prepare_target
              THEN write_memory_block32(set_target_state(t1, "PROGRAM"),
                       get_address(f.flash_algorithm, "LoadAddress"), <<>>)
              ELSE t1
        f2 == [f EXCEPT !.did_prepare_target = TRUE, !.active_operation = operation]
        w == call_function_and_wait(f2, t2,
                 get_instruction(f.flash_algorithm, "PCInit"),
                 get_flash_info(f).rom_start, 0, OpCode(operation), NoArg, TRUE)
    IN  [f |-> f2, t |-> w.t, res |-> IF w.r0 # 0 THEN Err("Init", w.r0, 0) ELSE Ok]

init(f, t, operation) ==
    LET address == get_flash_info(f).rom_start
        clock == 0
        t1 == halt(t)
        t2 == IF ~f.did_prepare_target
              THEN write_memory_block32(set_target_state(t1, "PROGRAM"),
                       get_address(f.flash_algorithm, "LoadAddress"), <<>>)
              ELSE t1
        f2 == [f EXCEPT !.did_prepare_target = TRUE]
        w == call_function_and_wait(f2, t2,
                 get_instruction(f.flash_algorithm, "PCInit"),
                 address, clock, OpCode(operation), NoArg, TRUE)
    IN  IF w.r0 # 0
        THEN [f |-> f2, t |-> w.t, res |-> Err("Init", w.r0, 0)]
        ELSE [f |-> [f2 EXCEPT !.active_operation = operation], t |-> w.t, res |-> Ok]

erase_all(f, t) ==
    IF f.active_operation = "Erase"
    THEN IF f.is_erase_all_supported
         THEN LET w == call_function_and_wait(f, t,
                           get_instruction(f.flash_algorithm, "PCEraseAll"),
                           NoArg, NoArg, NoArg, NoArg, TRUE)
              IN  IF w.r0 # 0
                  THEN [f |-> f, t |-> w.t, res |-> Err("EraseAll", w.r0, 0)]
                  ELSE [f |-> f, t |-> w.t, res |-> Ok]
         ELSE [f |-> f, t |-> t, res |-> Err("EraseAllNotSupported", 0, 0)]
    ELSE [f |-> f, t |-> t, res |-> WrongOperationOngoing(f.active_operation)]

\* erase_page without the check of active_operation
erase_page_unguarded(f, t, address) ==
    LET w == call_function_and_wait(f, t,
                 get_instruction(f.flash_algorithm, "PCEraseSector"),
                 address, NoArg, NoArg, NoArg, TRUE)
    IN  IF w.r0 # 0
        THEN [f |-> f, t |-> w.t, res |-> Err("ErasePage", w.r0, address)]
        ELSE [f |-> f, t |-> w.t, res |-> Ok]

erase_page(f, t, address) ==
    IF f.active_operation = "Erase"
    THEN LET w == call_function_and_wait(f, t,
                      get_instruction(f.flash_algorithm, "PCEraseSector"),
                      address, NoArg, NoArg, NoArg, TRUE)
         IN  IF w.r0 # 0
             THEN [f |-> f, t |-> w.t, res |-> Err("ErasePage", w.r0, address)]
             ELSE [f |-> f, t |-> w.t, res |-> Ok]
    ELSE [f |-> f, t |-> t, res |-> WrongOperationOngoing(f.active_operation)]

\* a program_page that starts the algorithm before the data is in the buffer
program_page_resume_first(f, t, address, data) ==
    IF f.active_operation = "Program"
    THEN LET t1 == call_function(f, t,
                       get_instruction(f.flash_algorithm, "PCProgramPage"),
                       address, Len(data), get_address(f.flash_algorithm, "BeginData"),
                       NoArg, TRUE)
             w == wait_for_completion(
                      write_memory_block8(t1, get_address(f.flash_algorithm, "BeginData"),
                                          data))
         IN  IF w.r0 # 0
             THEN [f |-> f, t |-> w.t, res |-> Err("ProgramPage", w.r0, address)]
             ELSE [f |-> f, t |-> w.t, res |-> Ok]
    ELSE [f |-> f, t |-> t, res |-> WrongOperationOngoing(f.active_operation)]

\* a program_page whose error does not carry the address
program_page_address_dropped(f, t, address, data) ==
    IF f.active_operation = "Program"
    THEN LET t1 == write_memory_block8(t, get_address(f.flash_algorithm, "BeginData"), data)
             w == call_function_and_wait(f, t1,
                      get_instruction(f.flash_algorithm, "PCProgramPage"),
                      address, Len(data), get_address(f.flash_algorithm, "BeginData"),
                      NoArg, TRUE)
         IN  IF w.r0 # 0
             THEN [f |-> f, t |-> w.t, res |-> Err("ProgramPage", w.r0, 0)]
             ELSE [f |-> f, t |-> w.t, res |-> Ok]
    ELSE [f |-> f, t |-> t, res |-> WrongOperationOngoing(f.active_operation)]

program_page(f, t, address, data) ==
    IF f.active_operation = "Program"
    THEN LET t1 == write_memory_block8(t, get_address(f.flash_algorithm, "BeginData"), data)
             w == call_function_and_wait(f, t1,
                      get_instruction(f.flash_algorithm, "PCProgramPage"),
                      address, Len(data), get_address(f.flash_algorithm, "BeginData"),
                      NoArg, TRUE)
         IN  IF w.r0 # 0
             THEN [f |-> f, t |-> w.t, res |-> Err("ProgramPage", w.r0, address)]
             ELSE [f |-> f, t |-> w.t, res |-> Ok]
    ELSE [f |-> f, t |-> t, res |-> WrongOperationOngoing(f.active_operation)]

----------------------------------------------------------------------------
(* builder.rs: FlashPage and FlashBuilder.  A weight w of the source (f32  *)
(* seconds) is the integer w * DATA_TRANSFER_B_PER_S here.                 *)

DATA_TRANSFER_B_PER_S == 40000

\* a weight given in milliseconds, in units of 1/DATA_TRANSFER_B_PER_S s
Weight(ms) == ms * (DATA_TRANSFER_B_PER_S \div 1000)

FlashPage(address, size, data, erase_weight, program_weight) ==
    [address |-> address, size |-> size, data |-> data,
     erase_weight |-> erase_weight, program_weight |-> program_weight,
     erased |-> "None", same |-> "None"]

get_verify_weight(page) == page.size

get_program_weight(page) == Weight(page.program_weight) + Len(page.data)

FlashOperation(address, data) == [address |-> address, data |-> data]

NewBuilder(f, base_addr) ==
    [flash |-> f, flash_start |-> base_addr, flash_operations |-> <<>>,
     buffered_data_size |-> 0, page_list |-> <<>>,
     enable_double_buffering |-> FALSE]

AddressBeforeFlashStart(a) == Err("AddressBeforeFlashStart", 0, a)
DataOverlap(a) == Err("DataOverlap", 0, a)
InvalidFlashAddress(a) == Err("InvalidFlashAddress", 0, a)

InsertAt(s, position, e) ==
    SubSeq(s, 1, position) \o <<e>> \o SubSeq(s, position + 1, Len(s))

\* a search that always answers "not found, insert at the end"
binary_search_append(ops, address) == [found |-> FALSE, position |-> Len(ops)]

\* binary_search_by_key on the address-sorted list: found, or the position
\* that keeps the list sorted
binary_search_by_key(ops, address) ==
    IF \E i \in 1..Len(ops) : ops[i].address = address
    THEN [found |-> TRUE, position |-> 0]
    ELSE [found |-> FALSE,
          position |-> Cardinality({i \in 1..Len(ops) : ops[i].address < address})]

\* the first operation that starts before its predecessor ends, or 0
FirstOverlap(ops) ==
    LET bad == {i \in 2..Len(ops) :
                    ops[i - 1].address + Len(ops[i - 1].data) > ops[i].address}
    IN  IF bad = {} THEN 0 ELSE CHOOSE i \in bad : \A j \in bad : i <= j

\* an add_data that counts the bytes of a call it rejects
add_data_counting_rejected(b, address, data) ==
    IF address >= b.flash_start
    THEN LET bs == binary_search_by_key(b.flash_operations, address)
             ops == IF bs.found THEN b.flash_operations
                    ELSE InsertAt(b.flash_operations, bs.position,
                                  FlashOperation(address, data))
             b1 == [b EXCEPT !.flash_operations = ops,
                             !.buffered_data_size = @ + Len(data)]
             i == FirstOverlap(ops)
         IN  IF i # 0 THEN [b |-> b1, res |-> DataOverlap(ops[i].address)]
             ELSE [b |-> b1, res |-> Ok]
    ELSE [b |-> [b EXCEPT !.buffered_data_size = @ + Len(data)],
          res |-> AddressBeforeFlashStart(address)]

\* yields [b, res]
add_data(b, address, data) ==
    IF address >= b.flash_start
    THEN LET bs == binary_search_by_key(b.flash_operations, address)
             ops == IF bs.found THEN b.flash_operations
                    ELSE InsertAt(b.flash_operations, bs.position,
                                  FlashOperation(address, data))
             b1 == [b EXCEPT !.flash_operations = ops,
                             !.buffered_data_size = @ + Len(data)]
             i == FirstOverlap(ops)
         IN  IF i # 0 THEN [b |-> b1, res |-> DataOverlap(ops[i].address)]
             ELSE [b |-> b1, res |-> Ok]
    ELSE [b |-> b, res |-> AddressBeforeFlashStart(address)]

\* an address computed in place of the base address of a page
PageAddressUnaligned(flash_address, size) == flash_address

\* `flash_address - (flash_address % info.size)`
PageAddress(flash_address, size) == flash_address - (flash_address % size)

\* The page materialisation loop of program, from operation i at offset pos;
\* current_page is the last page of pages (it was pushed when created).
\* Yields the pages and Ok, the InvalidFlashAddress error, or "Diverges"
\* when an iteration copies nothing and so repeats for ever.
RECURSIVE Materialise(_, _, _, _, _, _)
Materialise(f, ops, i, pos, pages, info) ==
    IF i > Len(ops) THEN [pages |-> pages, res |-> Ok]
    ELSE IF pos >= Len(ops[i].data) THEN Materialise(f, ops, i + 1, 0, pages, info)
    ELSE
        LET flash_address == ops[i].address + pos
            current_page == pages[Len(pages)]
            next_page == flash_address >= current_page.address + current_page.size
            info1 == IF next_page THEN get_page_info(f, flash_address) ELSE info
        IN  IF ~info1.some
            THEN [pages |-> pages, res |-> InvalidFlashAddress(flash_address)]
            ELSE
                LET page_address == PageAddress(flash_address, info1.size)
                    pages1 == IF next_page
                              THEN Append(pages, FlashPage(page_address, info1.size, <<>>,
                                              info1.erase_weight, info1.program_weight))
                              ELSE pages
                    page == pages1[Len(pages1)]
                    space_left_in_page == info1.size - Len(page.data)
                    space_left_in_data == Len(ops[i].data) - pos
                    amount == Min(space_left_in_page, space_left_in_data)
                    pages2 == [pages1 EXCEPT ![Len(pages1)].data =
                                    @ \o SubSeq(ops[i].data, pos + 1, pos + amount)]
                IN  IF amount = 0
                    THEN [pages |-> pages1, res |-> Err("Diverges", 0, flash_address)]
                    ELSE Materialise(f, ops, i, pos + amount, pages2, info1)

mark_all_pages_for_programming(pages) ==
    [i \in 1..Len(pages) |-> [pages[i] EXCEPT !.erased = "None", !.same = "None"]]

Tri(v) == IF v THEN "True" ELSE "False"

\* yields the count, the weight and the pages with their erased flags set
compute_chip_erase_pages_and_weight(f, pages) ==
    LET counted == {i \in 1..Len(pages) : pages[i].erased = "False"}
    IN  [count |-> Cardinality(counted),
         weight |-> Weight(get_flash_info(f).erase_weight)
                    + SeqSum([i \in 1..Len(pages) |->
                                 IF i \in counted THEN get_program_weight(pages[i]) ELSE 0]),
         pages |-> [i \in 1..Len(pages) |->
                       IF pages[i].erased = "True" THEN pages[i]
                       ELSE [pages[i] EXCEPT !.erased = Tri(is_erased(pages[i].data))]]]

compute_page_erase_pages_weight_min(pages) ==
    SeqSum([i \in 1..Len(pages) |-> get_verify_weight(pages[i])])

\* A machine m is the driver f, the target t and the driver calls made so
\* far; Drv records the call that gave r.  Results of the calls are dropped
\* by the routines below, as in the source.
Drv(m, name, operation, address, data, r) ==
    [f |-> r.f, t |-> r.t,
     calls |-> Append(m.calls, [name |-> name, operation |-> operation,
                                address |-> address, data |-> data, res |-> r.res])]

m_init(m, operation) == Drv(m, "init", operation, 0, <<>>, init(m.f, m.t, operation))
\* an uninit that is never made
m_uninit_skipped(m) == m

m_uninit(m) == Drv(m, "uninit", "None", 0, <<>>, uninit(m.f, m.t))
m_cleanup(m) == Drv(m, "cleanup", "None", 0, <<>>, cleanup(m.f, m.t))
m_erase_all(m) == Drv(m, "erase_all", "None", 0, <<>>, erase_all(m.f, m.t))
m_erase_page(m, address) ==
    Drv(m, "erase_page", "None", address, <<>>, erase_page(m.f, m.t, address))
m_program_page(m, address, data) ==
    Drv(m, "program_page", "None", address, data, program_page(m.f, m.t, address, data))

RECURSIVE ProgramUnerased(_, _, _)
ProgramUnerased(m, pages, i) ==
    IF i > Len(pages) THEN m
    ELSE IF pages[i].erased = "False"
         THEN ProgramUnerased(m_program_page(m, pages[i].address, pages[i].data), pages, i + 1)
         ELSE ProgramUnerased(m, pages, i + 1)

\* a chip-erase routine that programs the pages before it erases the chip
chip_erase_program_erase_last(m, pages) ==
    LET m1 == m_uninit(ProgramUnerased(m_init(m, "Program"), pages, 1))
    IN  [m |-> m_uninit(m_erase_all(m_init(m1, "Erase"))), pages |-> pages]

chip_erase_program(m, pages) ==
    LET m1 == m_uninit(m_erase_all(m_init(m, "Erase")))
        m2 == ProgramUnerased(m_init(m1, "Program"), pages, 1)
    IN  [m |-> m_uninit(m2), pages |-> pages]

\* one pass over the pages: a page whose same flag is known and false is
\* erased and programmed, a page whose flag is unknown is read and flagged
RECURSIVE PageErasePass(_, _, _)
PageErasePass(m, pages, i) ==
    IF i > Len(pages) THEN [m |-> m, pages |-> pages]
    ELSE
        LET page == pages[i]
        IN  IF page.same # "None"
            THEN IF page.same = "False"
                 THEN LET e == m_uninit(m_erase_page(m_init(m, "Erase"), page.address))
                          w == m_uninit(m_program_page(m_init(e, "Program"),
                                                       page.address, page.data))
                      IN  PageErasePass(w, pages, i + 1)
                 ELSE PageErasePass(m, pages, i + 1)
            ELSE LET data == read_memory_block8(m.t, page.address, Len(page.data))
                 IN  PageErasePass(m, [pages EXCEPT ![i].same = Tri(same(page.data, data))],
                                   i + 1)

page_erase_program(m, pages) == PageErasePass(m, pages, 1)

\* a comparison that also takes chip erase when the two weights are equal
ChipEraseFasterOrEqual(chip_erase_program_time, page_erase_min_program_time) ==
    chip_erase_program_time <= page_erase_min_program_time

\* `chip_erase_program_time < page_erase_min_program_time`
ChipEraseFaster(chip_erase_program_time, page_erase_min_program_time) ==
    chip_erase_program_time < page_erase_min_program_time

\* a program that halts the target and then reports the first operation's
\* address as invalid
program_halting_first(b, t, chip_erase, smart_flash) ==
    [res |-> IF b.flash_operations = <<>> THEN Err("Panic", 0, 0)
             ELSE InvalidFlashAddress(b.flash_operations[1].address),
     pages |-> <<>>, strategy |-> "none", calls |-> <<>>,
     chip_erase_weight |-> 0, page_erase_min_weight |-> 0, f |-> b.flash, t |-> halt(t)]

\* program(chip_erase, smart_flash) of builder b against target t.  Yields
\* the Result (or Panic / Diverges), the page list, the strategy run, the
\* driver calls made, and the driver and target afterwards.
program(b, t, chip_erase, smart_flash) ==
    LET f == b.flash
        ops == b.flash_operations
        stop(res, pages) ==
            [res |-> res, pages |-> pages, strategy |-> "none", calls |-> <<>>,
             chip_erase_weight |-> 0, page_erase_min_weight |-> 0, f |-> f, t |-> t]
    IN  IF ops = <<>> THEN stop(Err("Panic", 0, 0), <<>>)  \* flash_operations[0]
        ELSE
        LET flash_address == ops[1].address
            info == get_page_info(f, flash_address)
        IN  IF ~info.some THEN stop(InvalidFlashAddress(flash_address), <<>>)
            ELSE
            LET page_address == PageAddress(flash_address, info.size)
                first == FlashPage(page_address, info.size, <<>>,
                                   info.erase_weight, info.program_weight)
                mat == Materialise(f, ops, 1, 0, <<first>>, info)
            IN  IF mat.res # Ok THEN stop(mat.res, mat.pages)
                ELSE
                LET pages1 == IF ~smart_flash
                              THEN mark_all_pages_for_programming(mat.pages)
                              ELSE mat.pages
                    chip_erase1 == IF ~f.is_erase_all_supported THEN FALSE ELSE chip_erase
                    ce == compute_chip_erase_pages_and_weight(f, pages1)
                    page_erase_min_program_time ==
                        compute_page_erase_pages_weight_min(ce.pages)
                    chip_erase2 ==
                        IF ~chip_erase1
                           /\ ChipEraseFaster(ce.weight, page_erase_min_program_time)
                        THEN TRUE ELSE chip_erase1
                    double == f.is_double_buffering_supported /\ b.enable_double_buffering
                    m0 == [f |-> f, t |-> t, calls |-> <<>>]
                    done == IF double THEN [m |-> m0, pages |-> ce.pages]
                            ELSE IF chip_erase2 THEN chip_erase_program(m0, ce.pages)
                            ELSE page_erase_program(m0, ce.pages)
                    m9 == m_cleanup(done.m)
                IN  [res |-> Ok, pages |-> done.pages,
                     strategy |-> IF chip_erase2 THEN "chip" ELSE "page",
                     calls |-> m9.calls,
                     chip_erase_weight |-> ce.weight,
                     page_erase_min_weight |-> page_erase_min_program_time,
                     f |-> m9.f, t |-> m9.t]

----------------------------------------------------------------------------
(* memory_map.rs MemoryMap and load.rs FlashLoader.  builders maps the     *)
(* index of a region in the memory map to the builder created for it.      *)

\* the index of the first region of the map that contains address, or 0
get_region_for_address(memory_map, address) ==
    LET hit == {i \in 1..Len(memory_map) : contains_address(memory_map[i], address)}
    IN  IF hit = {} THEN 0 ELSE CHOOSE i \in hit : \A j \in hit : i <= j

\* region.flash.get_flash_builder(): a builder at the region's start, on a
\* new driver for the region
get_flash_builder(region, algo) == NewBuilder(NewFlash(region, algo, TRUE), region.start)

NewLoader(memory_map, chip_erase) ==
    [memory_map |-> memory_map, builders |-> <<>>, total_data_size |-> 0,
     chip_erase |-> chip_erase]

reset_state(l) == [l EXCEPT !.builders = <<>>, !.total_data_size = 0]

MemoryRegionNotDefined(a) == Err("MemoryRegionNotDefined", 0, a)
MemoryRegionNotFlash(a) == Err("MemoryRegionNotFlash", 0, a)

\* the loop of FlashLoader::add_data with `remaining` bytes left; the Result
\* of the builder's add_data is dropped.  Yields [l, res]; res is Panic when
\* the slice data[size - remaining..program_length] starts after its end.
RECURSIVE LoaderAddLoop(_, _, _, _, _)
LoaderAddLoop(l, algo, address, data, remaining) ==
    IF remaining <= 0 THEN [l |-> l, res |-> Ok]
    ELSE
        LET size == Len(data)
            r == get_region_for_address(l.memory_map, address)
        IN  IF r = 0 THEN [l |-> l, res |-> MemoryRegionNotDefined(address)]
            ELSE IF l.memory_map[r].typ # "Flash"
            THEN [l |-> l, res |-> MemoryRegionNotFlash(address)]
            ELSE
                LET region == l.memory_map[r]
                    builders == IF r \in DOMAIN l.builders THEN l.builders
                                ELSE [i \in DOMAIN l.builders \cup {r} |->
                                        IF i = r THEN get_flash_builder(region, algo)
                                        ELSE l.builders[i]]
                    program_length == Min(remaining, end(region) - address + 1)
                    from == size - remaining
                IN  IF from > program_length
                    THEN [l |-> [l EXCEPT !.builders = builders],
                          res |-> Err("Panic", 0, address)]
                    ELSE
                        LET slice == SubSeq(data, from + 1, program_length)
                            added == add_data(builders[r], address, slice)
                            l1 == [l EXCEPT !.builders = [builders EXCEPT ![r] = added.b]]
                        IN  LoaderAddLoop(l1, algo, address + program_length, data,
                                          remaining - program_length)

loader_add_data(l, algo, address, data) == LoaderAddLoop(l, algo, address, data, Len(data))

\* a chip_erase argument that repeats the loader's setting for every builder
CommitChipEraseAlways(chip_erase, did_chip_erase) == chip_erase

\* `if !did_chip_erase { self.chip_erase } else { false }`
CommitChipErase(chip_erase, did_chip_erase) ==
    IF ~did_chip_erase THEN chip_erase ELSE FALSE

\* the builder keys in ascending flash_start order
RECURSIVE SortByFlashStart(_, _)
SortByFlashStart(builders, keys) ==
    IF keys = {} THEN <<>>
    ELSE LET k == CHOOSE k \in keys :
                    \A j \in keys : builders[k].flash_start <= builders[j].flash_start
         IN  <<k>> \o SortByFlashStart(builders, keys \ {k})

\* the loop of commit over the sorted builders; runs collects, per program
\* call, the builder's flash_start, the chip_erase argument and the outcome.
\* The Result of program is dropped; a program call that panics or never
\* returns ends the loop.
RECURSIVE CommitLoop(_, _, _, _, _, _)
\* one iteration of that loop, given the outcome p of its program call
CommitStep(l, sorted, i, chip_erase, p, runs) ==
    LET runs1 == Append(runs, [flash_start |-> l.builders[sorted[i]].flash_start,
                               chip_erase |-> chip_erase, res |-> p.res,
                               strategy |-> p.strategy, calls |-> p.calls,
                               pages |-> p.pages])
    IN  IF p.res.tag \in {"Panic", "Diverges"}
        THEN [t |-> p.t, runs |-> runs1, res |-> p.res]
        ELSE CommitLoop(l, sorted, i + 1, TRUE, p.t, runs1)

CommitLoop(l, sorted, i, did_chip_erase, t, runs) ==
    IF i > Len(sorted) THEN [t |-> t, runs |-> runs, res |-> Ok]
    ELSE CommitStep(l, sorted, i, CommitChipErase(l.chip_erase, did_chip_erase),
                    program(l.builders[sorted[i]], t,
                            CommitChipErase(l.chip_erase, did_chip_erase), TRUE),
                    runs)

\* what commit leaves behind, given the outcome c of its loop
CommitResult(l, c) ==
    [l |-> IF c.res = Ok THEN reset_state(l) ELSE l,
     t |-> c.t, runs |-> c.runs, res |-> c.res]

\* yields the loader and the target afterwards and the program calls made
commit(l, t) ==
    CommitResult(l, CommitLoop(l, SortByFlashStart(l.builders, DOMAIN l.builders),
                               1, FALSE, t, <<>>))

----------------------------------------------------------------------------
(* load.rs Ranges: an iterator over a list of addresses that yields the    *)
(* contiguous ranges of the list.  list is what the inner iterator has     *)
(* still to give.  A returned value is [tag, first, last] with tag Some,   *)
(* None, or Panic for an unwrap() of None.                                 *)

NoItem == -1    \* Option::None of a usize item

\* usize::max_value(), as far as the model's integers go; the value is
\* overwritten by the first next() before it is read
usize_max_value == 2147483647

NewRanges(list) ==
    [list |-> list, start_item |-> NoItem, last_item |-> usize_max_value - 1]

ranges(list) == NewRanges(list)

ItemSome(first, last) == [tag |-> "Some", first |-> first, last |-> last]
ItemNone == [tag |-> "None", first |-> 0, last |-> 0]
ItemPanic == [tag |-> "Panic", first |-> 0, last |-> 0]

\* the `loop` of Ranges::next; yields [r, ret]
RECURSIVE RangesLoop(_)
RangesLoop(r) ==
    IF r.list # <<>>
    THEN LET item == Head(r.list)
             r1 == [r EXCEPT !.list = Tail(r.list)]
         IN  IF r.last_item = NoItem THEN [r |-> r1, ret |-> ItemPanic]
             ELSE IF item = r.last_item + 1
             THEN RangesLoop([r1 EXCEPT !.last_item = item])
             ELSE IF r.start_item = NoItem THEN [r |-> r1, ret |-> ItemPanic]
             ELSE [r |-> [r1 EXCEPT !.last_item = item, !.start_item = item],
                   ret |-> ItemSome(r.start_item, r.last_item)]
    ELSE IF r.last_item # NoItem
         THEN IF r.start_item = NoItem
              THEN [r |-> [r EXCEPT !.last_item = NoItem], ret |-> ItemPanic]
              ELSE [r |-> [r EXCEPT !.last_item = NoItem],
                    ret |-> ItemSome(r.start_item, r.last_item)]
         ELSE [r |-> r, ret |-> ItemNone]

\* a next that never fills start_item from the list
next_uninitialised(r) == RangesLoop(r)

\* Ranges::next: a start_item of None is first filled from the list
next(r) ==
    IF r.start_item = NoItem
    THEN IF r.list # <<>>
         THEN RangesLoop([r EXCEPT !.list = Tail(r.list), !.start_item = Head(r.list),
                                   !.last_item = Head(r.list)])
         ELSE RangesLoop([r EXCEPT !.start_item = NoItem, !.last_item = NoItem])
    ELSE RangesLoop(r)

----------------------------------------------------------------------------
(* Initial states.  Every specification starts from the same construction: *)
(* a target holding some flash image, a fresh driver, a fresh builder and  *)
(* a fresh loader.                                                         *)

SmallBlock == 2     \* sector size of the small flash device

\* flash images a target may hold before anything is programmed
Images == {{}, {<<1, 1>>, <<5, 1>>}}

FlashRegion == Region("Flash", 0, 2 * SmallBlock, SmallBlock)

LargeBlock == 8192  \* sector size of the large flash device

\* sector size of a device on which two pages weigh what a chip erase does
MediumBlock == Weight(DEFAULT_CHIP_ERASE_WEIGHT) \div 2

DefaultAlgorithm == Algorithm(200000)

\* the flash region of a device with sectors of size bs: two sectors, from bs
DeviceRegion(bs) == Region("Flash", bs, 2 * bs, bs)

NoBuilder == NewBuilder(NewFlash(DeviceRegion(SmallBlock), DefaultAlgorithm, TRUE), SmallBlock)

NoAdd == [n |-> 0, address |-> 0, data |-> <<>>, res |-> Ok, clean |-> TRUE, made |-> {}]

NoRun ==
    [done |-> FALSE, chip_erase |-> FALSE, smart_flash |-> FALSE, res |-> Ok,
     strategy |-> "none", calls |-> <<>>, chip_erase_weight |-> 0,
     page_erase_min_weight |-> 0, mem |-> {}]

NoLoader == NewLoader(<<>>, FALSE)

NoCommit == [done |-> FALSE, fail |-> 0, res |-> Ok, runs |-> <<>>, mem |-> {}]

NoIter ==
    [r |-> ranges(<<>>), input |-> <<>>, out |-> <<>>, nones |-> 0, late |-> FALSE,
     panic |-> FALSE]

NoCall ==
    [name |-> "new", operation |-> "None", address |-> 0, data |-> <<>>,
     res |-> Ok, first |-> 1]

\* the target as a driver call finds it: the simulated algorithm fails its
\* fail-th invocation from now on (0: none); the log keeps the accesses of
\* the previous call (those from index first on) and gains those of this one
Arm(t, first, fail) ==
    [t EXCEPT !.calls = 0, !.fail_at = fail,
              !.log = SubSeq(@, first, Len(@))]

InitFlash ==
    /\ \E algo \in Algorithms, mem \in Images, polls \in 0..MaxPolls :
          /\ target = [NewTarget(algo, SmallBlock, mem) EXCEPT !.polls = polls]
          /\ \E eas \in BOOLEAN : flash = NewFlash(FlashRegion, algo, eas)
    /\ call = NoCall
    /\ builder = NoBuilder
    /\ addres = NoAdd
    /\ run = NoRun
    /\ loader = NoLoader
    /\ commits = NoCommit
    /\ iter = NoIter

Called(name, operation, address, data, t0, r) ==
    /\ flash' = r.f
    /\ target' = r.t
    /\ call' = [name |-> name, operation |-> operation, address |-> address,
                data |-> data, res |-> r.res, first |-> Len(t0.log) + 1]
    /\ UNCHANGED <<builder, addres, run, loader, commits, iter>>

DoInit ==
    \E operation \in Operations, fail \in 0..1 :
        \E t0 \in {Arm(target, call.first, fail)} :
            \E r \in {init(flash, t0, operation)} :
                Called("init", operation, 0, <<>>, t0, r)

DoUninit ==
    \E fail \in 0..1 :
        \E t0 \in {Arm(target, call.first, fail)} :
            \E r \in {uninit(flash, t0)} :
                Called("uninit", "None", 0, <<>>, t0, r)

DoCleanup ==
    \E fail \in 0..1 :
        \E t0 \in {Arm(target, call.first, fail)} :
            \E r \in {cleanup(flash, t0)} :
                Called("cleanup", "None", 0, <<>>, t0, r)

DoEraseAll ==
    \E fail \in 0..1 :
        \E t0 \in {Arm(target, call.first, fail)} :
            \E r \in {erase_all(flash, t0)} :
                Called("erase_all", "None", 0, <<>>, t0, r)

DoErasePage ==
    \E address \in {0, SmallBlock}, fail \in 0..1 :
        \E t0 \in {Arm(target, call.first, fail)} :
            \E r \in {erase_page(flash, t0, address)} :
                Called("erase_page", "None", address, <<>>, t0, r)

DoProgramPage ==
    \E address \in {0, SmallBlock}, data \in {<<0, 1>>}, fail \in 0..1 :
        \E t0 \in {Arm(target, call.first, fail)} :
            \E r \in {program_page(flash, t0, address, data)} :
                Called("program_page", "None", address, data, t0, r)

NextFlash ==
    \/ DoInit
    \/ DoUninit
    \/ DoCleanup
    \/ DoEraseAll
    \/ DoErasePage
    \/ DoProgramPage

SpecFlash == InitFlash /\ [][NextFlash]_vars


----------------------------------------------------------------------------
(* The builder driven directly: add_data calls, then one program call      *)
(* (program consumes the builder).                                         *)

Ones(n) == [i \in 1..n |-> 1]
Zeros(n) == [i \in 1..n |-> erased_byte_value]

\* the add_data calls made on a builder whose region is two sectors of size
\* bs starting at bs, as <<address, data>>: before flash_start, empty data,
\* aligned and unaligned starts, data that crosses the sector boundary, data
\* equal to the erased value, data that runs over the region's last byte,
\* at end() and past it
Inputs(bs) ==
    {<<bs - 1, Ones(1)>>, <<bs, <<>>>>, <<bs, Ones(1)>>, <<bs, Ones(MaxData)>>,
     <<bs + 1, Ones(1)>>, <<bs + 1, Ones(MaxData)>>, <<2 * bs - 1, Ones(MaxData)>>,
     <<2 * bs, Zeros(MaxData)>>, <<2 * bs, Ones(1)>>,
     <<3 * bs - 1, Ones(MaxData)>>, <<3 * bs, Ones(1)>>, <<3 * bs + 1, Ones(1)>>}

\* two add_data ranges do not overlap
Disjoint(a1, d1, a2, d2) == a1 + Len(d1) <= a2 \/ a2 + Len(d2) <= a1

InitBuilder ==
    /\ \E bs \in {SmallBlock, MediumBlock, LargeBlock} :
       \E mem \in {{}, {<<bs, 1>>, <<bs + 1, 1>>}} :
          /\ target = NewTarget(DefaultAlgorithm, bs, mem)
          /\ \E eas \in BOOLEAN :
                builder = NewBuilder(NewFlash(DeviceRegion(bs), DefaultAlgorithm, eas), bs)
    /\ flash = NewFlash(FlashRegion, DefaultAlgorithm, TRUE)
    /\ call = NoCall
    /\ addres = NoAdd
    /\ run = NoRun
    /\ loader = NoLoader
    /\ commits = NoCommit
    /\ iter = NoIter

AddData ==
    /\ ~run.done
    /\ addres.n < MaxOps
    /\ \E in \in Inputs(builder.flash.region.blocksize) :
          LET address == in[1]
              data == in[2]
              r == add_data(builder, address, data)
          IN  /\ builder' = r.b
              /\ addres' = [n |-> addres.n + 1, address |-> address, data |-> data,
                            res |-> r.res,
                            clean |-> /\ addres.clean
                                      /\ address >= builder.flash_start
                                      /\ \A c \in addres.made :
                                            Disjoint(c.address, c.data, address, data),
                            made |-> addres.made \cup {FlashOperation(address, data)}]
    /\ UNCHANGED <<target, flash, call, run, loader, commits, iter>>

Program ==
    /\ ~run.done
    /\ \E chip_erase \in BOOLEAN, smart_flash \in BOOLEAN, fail \in 0..MaxFail :
          \E r \in {program(builder, [target EXCEPT !.calls = 0, !.fail_at = fail,
                                                    !.log = <<>>],
                              chip_erase, smart_flash)} :
              /\ builder' = [builder EXCEPT !.page_list = r.pages, !.flash = r.f]
              /\ target' = r.t
              /\ run' = [done |-> TRUE, chip_erase |-> chip_erase,
                         smart_flash |-> smart_flash, res |-> r.res,
                         strategy |-> r.strategy, calls |-> r.calls,
                         chip_erase_weight |-> r.chip_erase_weight,
                         page_erase_min_weight |-> r.page_erase_min_weight,
                         mem |-> target.mem]
    /\ UNCHANGED <<flash, call, addres, loader, commits, iter>>

NextBuilder ==
    \/ AddData
    \/ Program

SpecBuilder == InitBuilder /\ [][NextBuilder]_vars

----------------------------------------------------------------------------
(* The loader: add_data calls, then commit.  addres records the loader's   *)
(* add_data calls here.  `pub fn commit(self)` takes the loader by value:  *)
(* the caller's loader is moved into the call and dropped when it returns, *)
(* so no add_data and no commit can follow a commit (commits.done).        *)

\* the memory map of a device with sectors of size bs: two contiguous flash
\* regions of two sectors each, a hole, and RAM
Flash1(bs) == Region("Flash", bs, 2 * bs, bs)
Flash2(bs) == Region("Flash", 3 * bs, 2 * bs, bs)
Ram(bs) == Region("Ram", 6 * bs, 2 * bs, bs)

MemoryMaps(bs) == {<<Flash1(bs), Flash2(bs), Ram(bs)>>, <<Flash2(bs), Flash1(bs), Ram(bs)>>}

\* the add_data calls made on the loader, as <<address, data>>: the start
\* of the first region, empty data, data across its sector boundary, data
\* equal to the erased value, data across the boundary of the two regions,
\* the start of the second region (end() of the first), data inside the
\* second region, its end(), data from its end() into the hole, the hole
\* and RAM
LoaderInputs(bs) ==
    {<<bs, Ones(1)>>, <<bs, <<>>>>, <<2 * bs - 1, Ones(MaxData)>>,
     <<2 * bs, Zeros(MaxData)>>, <<3 * bs - 1, Ones(MaxData)>>,
     <<3 * bs, Ones(1)>>, <<3 * bs, Ones(MaxData)>>, <<4 * bs - 1, Ones(MaxData)>>,
     <<5 * bs, Ones(1)>>, <<5 * bs, Ones(MaxData)>>, <<5 * bs + 1, Ones(1)>>,
     <<6 * bs, Ones(1)>>}

\* every address of the range lies in a flash region of the map
InFlash(memory_map, address, data) ==
    \A a \in address..(address + Len(data) - 1) :
        \E i \in 1..Len(memory_map) :
            /\ memory_map[i].typ = "Flash"
            /\ memory_map[i].start <= a
            /\ a < memory_map[i].start + memory_map[i].length

InitLoader ==
    /\ \E bs \in {SmallBlock, LargeBlock} :
          /\ \E mem \in {{}, {<<bs, 1>>, <<bs + 1, 1>>}} :
                target = NewTarget(DefaultAlgorithm, bs, mem)
          /\ \E memory_map \in MemoryMaps(bs), chip_erase \in BOOLEAN :
                loader = NewLoader(memory_map, chip_erase)
    /\ flash = NewFlash(FlashRegion, DefaultAlgorithm, TRUE)
    /\ call = NoCall
    /\ builder = NoBuilder
    /\ addres = NoAdd
    /\ run = NoRun
    /\ commits = NoCommit
    /\ iter = NoIter

LoaderAddData ==
    /\ ~commits.done
    /\ addres.n < MaxOps
    /\ \E in \in LoaderInputs(target.sector) :
          \E r \in {loader_add_data(loader, target.algo, in[1], in[2])} :
              /\ loader' = r.l
              /\ addres' = [n |-> addres.n + 1, address |-> in[1], data |-> in[2],
                            res |-> r.res,
                            clean |-> /\ addres.clean
                                      /\ r.res = Ok
                                      /\ InFlash(loader.memory_map, in[1], in[2])
                                      /\ \A c \in addres.made :
                                            Disjoint(c.address, c.data, in[1], in[2]),
                            made |-> addres.made \cup {FlashOperation(in[1], in[2])}]
    /\ UNCHANGED <<target, flash, call, builder, run, commits, iter>>

Commit ==
    /\ ~commits.done
    /\ addres.res.tag # "Panic"
    /\ \E fail \in 0..MaxFail :
          \E r \in {commit(loader, [target EXCEPT !.calls = 0, !.fail_at = fail,
                                                  !.log = <<>>])} :
              /\ loader' = r.l
              /\ target' = r.t
              /\ commits' = [done |-> TRUE, fail |-> fail, res |-> r.res,
                             runs |-> r.runs, mem |-> target.mem]
    /\ UNCHANGED <<flash, call, builder, addres, run, iter>>

NextLoader ==
    \/ LoaderAddData
    \/ Commit

SpecLoader == InitLoader /\ [][NextLoader]_vars

----------------------------------------------------------------------------
(* ranges: next calls on the iterator made by ranges(list), for every      *)
(* ascending list of distinct addresses up to MaxAddress.  iter records    *)
(* the list, the ranges returned so far (out), the number of None returns  *)
(* (nones), whether a range was returned after a None (late) and whether   *)
(* a call panicked.                                                        *)

\* the elements of S in ascending order
RECURSIVE Ascending(_)
Ascending(S) ==
    IF S = {} THEN <<>>
    ELSE LET m == CHOOSE m \in S : \A x \in S : m <= x
         IN  <<m>> \o Ascending(S \ {m})

InitRanges ==
    /\ \E S \in SUBSET (0..MaxAddress) :
          iter = [NoIter EXCEPT !.r = ranges(Ascending(S)), !.input = Ascending(S)]
    /\ target = NewTarget(DefaultAlgorithm, SmallBlock, {})
    /\ flash = NewFlash(FlashRegion, DefaultAlgorithm, TRUE)
    /\ call = NoCall
    /\ builder = NoBuilder
    /\ addres = NoAdd
    /\ run = NoRun
    /\ loader = NoLoader
    /\ commits = NoCommit

DoNext ==
    /\ iter.nones < MaxNone
    /\ ~iter.panic
    /\ \E n \in {next(iter.r)} :
          iter' = [iter EXCEPT
                      !.r = n.r,
                      !.out = IF n.ret.tag = "Some"
                              THEN Append(@, <<n.ret.first, n.ret.last>>) ELSE @,
                      !.nones = IF n.ret.tag = "None" THEN @ + 1 ELSE @,
                      !.late = @ \/ (iter.nones > 0 /\ n.ret.tag = "Some"),
                      !.panic = (n.ret.tag = "Panic")]
    /\ UNCHANGED <<target, flash, call, builder, addres, run, loader, commits>>

NextRanges == DoNext

SpecRanges == InitRanges /\ [][NextRanges]_vars

----------------------------------------------------------------------------
(* Properties of the driver (SpecFlash) *)

\* the step's driver call made no target access: nothing was logged and
\* the target's memory, buffer, registers and run state are as before
TargetUntouched ==
    /\ Len(target'.log) = call'.first - 1
    /\ \A k \in {"state", "mode", "loaded", "regs", "buf_addr", "buf", "mem"} :
          target'[k] = target[k]

\* C8: erase_all or erase_page called while active_operation is not Erase,
\* and program_page called while it is not Program, return
\* WrongOperationOngoing, make no target access and leave the driver as it was
C8_WrongOperationRefused ==
    [][ (\/ /\ call'.name \in {"erase_all", "erase_page"}
            /\ flash.active_operation # "Erase"
         \/ /\ call'.name = "program_page"
            /\ flash.active_operation # "Program")
        => /\ call'.res = WrongOperationOngoing(flash.active_operation)
           /\ flash' = flash
           /\ TargetUntouched ]_vars

C8_Witness ==
    /\ call.name = "erase_page"
    /\ flash.active_operation = "Program"
    /\ call.res = WrongOperationOngoing("Program")

\* C9: init called while active_operation is Erase, Program or Verify returns
\* WrongOperationOngoing, does not invoke the Init entry and leaves
\* active_operation unchanged
C9_InitOnlyFromNone ==
    [][ (call'.name = "init" /\ flash.active_operation # "None")
        => /\ call'.res.tag = "WrongOperationOngoing"
           /\ flash'.active_operation = flash.active_operation
           /\ TargetUntouched ]_vars

\* in a log of target accesses, every resume is followed by get_state polls,
\* the last of which sees the target halted, and then by the read of r0
WaitsAfterResume(log) ==
    \A i \in 1..Len(log) :
        log[i][1] = "resume" =>
            \E j \in (i + 2)..Len(log) :
                /\ log[j][1] = "read_core_register"
                /\ log[j][2] = "r0"
                /\ \A k \in (i + 1)..(j - 1) : log[k][1] = "get_state"
                /\ \A k \in (i + 1)..(j - 2) : log[k][2] = "RUNNING"
                /\ log[j - 1][2] = "HALTED"

\* C10: after the driver resumes the target it polls the target state until
\* it is not running and reads r0 before it writes a register, writes the
\* data buffer or resumes again
C10_NoOverlappingInvocations == WaitsAfterResume(target.log)

C10_Witness ==
    /\ \E i, j \in 1..Len(target.log) :
          /\ i < j
          /\ target.log[i][1] = "resume"
          /\ target.log[j][1] = "write_memory_block8"
          /\ \E k \in (j + 1)..Len(target.log) : target.log[k][1] = "resume"
    /\ \E i \in 1..Len(target.log) : target.log[i] = <<"get_state", "RUNNING">>
    /\ call.name = "program_page"

\* the values the last driver call read from r0
R0Read ==
    {target.log[i][3] : i \in {j \in call.first..Len(target.log) :
                                  /\ target.log[j][1] = "read_core_register"
                                  /\ target.log[j][2] = "r0"}}

\* the error a driver call gives for the non-zero code c
TypedError(name, c, address) ==
    CASE name = "init" -> Err("Init", c, 0)
      [] name = "uninit" -> Err("Uninit", c, 0)
      [] name = "erase_all" -> Err("EraseAll", c, 0)
      [] name = "erase_page" -> Err("ErasePage", c, address)
      [] name = "program_page" -> Err("ProgramPage", c, address)

\* C20: init, uninit, erase_all, erase_page and program_page, when they
\* invoke the algorithm, return Ok exactly when the r0 value read afterwards
\* is 0, and for a non-zero value c return Init(c), Uninit(c), EraseAll(c),
\* ErasePage(c, address) and ProgramPage(c, address) respectively
C20_ReturnCodeMapping ==
    call.name \in {"init", "uninit", "erase_all", "erase_page", "program_page"} =>
        \A c \in R0Read :
            /\ (call.res = Ok) <=> (c = 0)
            /\ c # 0 => call.res = TypedError(call.name, c, call.address)

C20_Witness ==
    /\ call.name = "program_page"
    /\ call.address = SmallBlock
    /\ R0Read = {ErrCode}
    /\ call.res = Err("ProgramPage", ErrCode, SmallBlock)

\* the target accesses of the last driver call
CallLog == SubSeq(target.log, call.first, Len(target.log))

\* the argument registers r0..r3 a register write sets, with their values
ArgRegs(list) ==
    {list[k] : k \in {j \in 1..Len(list) : list[j][1] \in {"r0", "r1", "r2", "r3"}}}

\* the argument words the last driver call supplies to its algorithm entry
SuppliedArgs ==
    CASE call.name = "init" ->
            {<<"r0", get_flash_info(flash).rom_start>>, <<"r1", 0>>,
             <<"r2", OpCode(call.operation)>>}
      [] call.name = "program_page" ->
            {<<"r0", call.address>>, <<"r1", Len(call.data)>>,
             <<"r2", get_address(flash.flash_algorithm, "BeginData")>>}
      [] call.name = "erase_page" -> {<<"r0", call.address>>}
      [] OTHER -> {}

\* C21: in every algorithm invocation register rN is written exactly when
\* the N-th argument word is supplied, and with that word: Init gets
\* r0 = rom_start, r1 = clock, r2 = operation code; ProgramPage gets
\* r0 = addr, r1 = len(data), r2 = begin_data; EraseSector gets r0 = addr
\* and no other argument register; EraseAll gets none
C21_ArgumentMapping ==
    call.name \in {"init", "program_page", "erase_page", "erase_all"} =>
        \A j \in 1..Len(CallLog) :
            CallLog[j][1] = "write_core_registers_raw" =>
                ArgRegs(CallLog[j][2]) = SuppliedArgs

\* C22: program_page in Program state writes the data to the begin-data
\* buffer, then writes the registers for the ProgramPage entry with
\* r1 = len(data), then resumes the target, then waits for completion; each
\* once, in this order
C22_ProgramPageOrder ==
    (call.name = "program_page" /\ call.res.tag \in {"Ok", "ProgramPage"}) =>
        LET n == Len(CallLog)
        IN  /\ n >= 5
            /\ CallLog[1] = <<"write_memory_block8",
                               get_address(flash.flash_algorithm, "BeginData"), call.data>>
            /\ CallLog[2][1] = "write_core_registers_raw"
            /\ <<"pc", get_instruction(flash.flash_algorithm, "PCProgramPage")>>
                  \in Range(CallLog[2][2])
            /\ <<"r1", Len(call.data)>> \in Range(CallLog[2][2])
            /\ CallLog[3] = <<"resume">>
            /\ \A k \in 4..(n - 1) : CallLog[k][1] = "get_state"
            /\ CallLog[n - 1] = <<"get_state", "HALTED">>
            /\ CallLog[n][1] = "read_core_register"

C22_Witness ==
    /\ call.name = "program_page"
    /\ call.res = Ok
    /\ Len(call.data) = 2
    /\ Len(CallLog) >= 6

\* how often the last driver call made the target access named kind
Count(kind) == Cardinality({j \in 1..Len(CallLog) : CallLog[j][1] = kind})

\* the last driver call invoked the Init entry, once
InitInvoked ==
    /\ Count("resume") = 1
    /\ \E j \in 1..Len(CallLog) :
          /\ CallLog[j][1] = "write_core_registers_raw"
          /\ <<"pc", get_instruction(flash.flash_algorithm, "PCInit")>>
                \in Range(CallLog[j][2])

\* C23 as stated: an init that directly follows an init performs none of
\* the preparation steps (halt, set target state, copy of the algorithm)
\* and invokes the Init entry
C23_PrepareOnce ==
    [][ (call.name = "init" /\ call'.name = "init")
        => /\ Count("halt")' = 0
           /\ Count("set_target_state")' = 0
           /\ Count("write_memory_block32")' = 0
           /\ InitInvoked' ]_vars

\* C23 amended: every init halts the target and invokes the Init entry; the
\* target state is set and the algorithm copied exactly by the inits made
\* while no preparation is cached, which is before the first init and after
\* each cleanup that returned Ok, and at no other time
C23_PrepareOnceHaltAlways ==
    [][ /\ call'.name = "init" =>
              /\ Count("halt")' = 1
              /\ InitInvoked'
              /\ Count("set_target_state")' = (IF flash.did_prepare_target THEN 0 ELSE 1)
              /\ Count("write_memory_block32")' = (IF flash.did_prepare_target THEN 0 ELSE 1)
              /\ flash'.did_prepare_target
        /\ call'.name = "cleanup" =>
              flash'.did_prepare_target = (flash.did_prepare_target /\ call'.res # Ok)
        /\ call'.name \notin {"init", "cleanup"} =>
              /\ flash'.did_prepare_target = flash.did_prepare_target
              /\ Count("set_target_state")' = 0
              /\ Count("write_memory_block32")' = 0 ]_vars

\* an init that found the preparation cached: it halted, did not copy
C23_Witness ==
    /\ call.name = "init"
    /\ call.res = Ok
    /\ Count("halt") = 1
    /\ Count("write_memory_block32") = 0
    /\ InitInvoked

\* C24 as stated: after any cleanup call active_operation is None and
\* did_prepare_target is false
C24_CleanupAlwaysResets ==
    call.name = "cleanup" =>
        flash.active_operation = "None" /\ ~flash.did_prepare_target

\* C24 amended: a cleanup that returns Ok leaves active_operation None and
\* did_prepare_target false; a cleanup directly after it invokes nothing,
\* returns Ok and leaves the driver as it is; a cleanup whose Uninit entry
\* call returns non-zero returns that Uninit error and leaves the driver as
\* it was
C24_CleanupIdempotent ==
    [][ call'.name = "cleanup" =>
          /\ call'.res = Ok =>
                flash'.active_operation = "None" /\ ~flash'.did_prepare_target
          /\ call'.res # Ok =>
                /\ call'.res = Err("Uninit", ErrCode, 0)
                /\ flash' = flash
          /\ (call.name = "cleanup" /\ call.res = Ok) =>
                /\ Count("resume")' = 0
                /\ call'.res = Ok
                /\ flash' = flash ]_vars

\* a cleanup that ended an active operation and dropped the preparation
C24_Witness ==
    /\ call.name = "cleanup"
    /\ call.res = Ok
    /\ Count("resume") = 1
    /\ flash.active_operation = "None"
    /\ ~flash.did_prepare_target

\* x | 1
SetBit0(x) == IF x % 2 = 0 THEN x + 1 ELSE x

\* the entry points of the driver's algorithm
EntryPoints ==
    {flash.flash_algorithm.pc_init, flash.flash_algorithm.pc_uninit,
     flash.flash_algorithm.pc_program_page, flash.flash_algorithm.pc_erase_sector,
     flash.flash_algorithm.pc_erase_all}

C40_OperationFrame ==
    [][ /\ call'.name \in {"erase_all", "erase_page", "program_page"} =>
              /\ flash'.active_operation = flash.active_operation
              /\ flash'.did_prepare_target = flash.did_prepare_target
        /\ (call'.name = "init" /\ call'.res # Ok) =>
              flash'.active_operation = flash.active_operation
        /\ flash'.active_operation # flash.active_operation =>
              /\ call'.name \in {"init", "uninit", "cleanup"}
              /\ call'.res = Ok ]_vars

C40_Witness ==
    /\ call.name = "program_page"
    /\ call.res.tag = "ProgramPage"
    /\ flash.active_operation = "Program"
    /\ flash.did_prepare_target

----------------------------------------------------------------------------
(* Properties of the builder (SpecBuilder) *)

Sorted(ops) == \A i \in 2..Len(ops) : ops[i - 1].address < ops[i].address

NoOverlap(ops) ==
    \A i \in 2..Len(ops) : ops[i - 1].address + Len(ops[i - 1].data) <= ops[i].address

\* the operation of ops that holds a byte for address a
Covers(op, a) == op.address <= a /\ a < op.address + Len(op.data)

\* the byte a page is meant to carry for address a: the host's byte if an
\* operation holds one, else what the target held when program was called
Intended(ops, mem, a) ==
    IF \E i \in 1..Len(ops) : Covers(ops[i], a)
    THEN LET op == ops[CHOOSE i \in 1..Len(ops) : Covers(ops[i], a)]
         IN  op.data[a - op.address + 1]
    ELSE FlashByte(mem, a)

\* C2: for every page program materialises, the byte at offset k of its data
\* is the byte intended for address page.address + k: host bytes sit at
\* their offsets and the gaps carry what the target returned
C2_GapFillCoverage ==
    (run.done /\ run.res = Ok /\ addres.clean) =>
        \A i \in 1..Len(builder.page_list) :
            LET page == builder.page_list[i]
            IN  \A k \in 1..Len(page.data) :
                    page.data[k] = Intended(builder.flash_operations, run.mem,
                                            page.address + k - 1)

\* C3: every page program materialises has address % size = 0 and
\* len(data) <= size (pages and their data only grow during the loop, so
\* the list program ends with bounds every list it went through)
C3_PageAlignment ==
    \A i \in 1..Len(builder.page_list) :
        LET page == builder.page_list[i]
        IN  page.address % page.size = 0 /\ Len(page.data) <= page.size

C3_Witness ==
    /\ run.done
    /\ run.res = Ok
    /\ Len(builder.page_list) >= 2
    /\ builder.flash_operations[1].address % builder.flash.region.blocksize # 0
    /\ \E i \in 1..Len(builder.page_list) :
          Len(builder.page_list[i].data) = builder.page_list[i].size

\* C4: while every add_data call made so far was at or above flash_start and
\* the calls' ranges are pairwise disjoint, the stored operation list is
\* sorted by ascending address and no stored entry overlaps the next
C4_SortedNoOverlap ==
    addres.clean => Sorted(builder.flash_operations) /\ NoOverlap(builder.flash_operations)

C4_Witness ==
    /\ addres.clean
    /\ addres.n >= 2
    /\ addres.res = Ok
    /\ Len(builder.flash_operations) >= 2
    /\ builder.flash_operations[1] = FlashOperation(addres.address, addres.data)
    /\ Len(addres.data) > 0

\* C5: an add_data call at or above flash_start whose non-empty range shares
\* an address with a stored range is rejected with DataOverlap
C5_OverlapRejected ==
    [][ (/\ addres'.n = addres.n + 1
         /\ addres'.address >= builder.flash_start
         /\ \E i \in 1..Len(builder.flash_operations) :
               \E a \in addres'.address..(addres'.address + Len(addres'.data) - 1) :
                   Covers(builder.flash_operations[i], a))
        => addres'.res.tag = "DataOverlap" ]_vars

----------------------------------------------------------------------------
(* Properties of program (SpecBuilder).  run.calls lists the driver calls  *)
(* the program call made, in order, with the Result each returned.         *)

\* the program call came back to its caller, with Ok or with an error
Returned == run.done /\ run.res.tag \notin {"Panic", "Diverges"}

\* C11: every return of program, Ok or error, is preceded by a call of
\* Flash.cleanup made during that program call
C11_CleanupOnEveryReturn ==
    Returned => \E k \in 1..Len(run.calls) : run.calls[k].name = "cleanup"

\* every init that returned Ok is followed by an uninit before any other init
InitPaired(calls) ==
    \A k \in 1..Len(calls) :
        (calls[k].name = "init" /\ calls[k].res = Ok) =>
            \E j \in (k + 1)..Len(calls) :
                /\ calls[j].name = "uninit"
                /\ \A i \in (k + 1)..(j - 1) : calls[i].name # "init"

\* C12: during program every successful init is followed by an uninit call
\* before the next init and before program returns, also when an erase or
\* program call in between failed; and if no Uninit entry call returned
\* non-zero, the driver's active_operation is None when program returns
C12_ScopedAcquisition ==
    Returned =>
        /\ InitPaired(run.calls)
        /\ (\A k \in 1..Len(run.calls) : run.calls[k].res.tag # "Uninit")
              => builder.flash.active_operation = "None"

C12_Witness ==
    /\ Returned
    /\ \E k \in 1..Len(run.calls) :
          /\ run.calls[k].name = "erase_all"
          /\ run.calls[k].res.tag = "EraseAll"
    /\ Cardinality({k \in 1..Len(run.calls) :
                        run.calls[k].name = "init" /\ run.calls[k].res = Ok}) = 2
    /\ \A k \in 1..Len(run.calls) : run.calls[k].res.tag # "Uninit"
    /\ builder.flash.active_operation = "None"

\* C13: with is_erase_all_supported false, program never runs the
\* chip-erase routine and never calls erase_all, whatever the chip_erase
\* hint and the size of the image
C13_NoChipEraseWhenUnsupported ==
    (Returned /\ ~builder.flash.is_erase_all_supported) =>
        /\ run.strategy # "chip"
        /\ \A k \in 1..Len(run.calls) : run.calls[k].name # "erase_all"

\* C14: with erase-all supported, program runs the chip-erase routine if
\* chip_erase was passed true, and otherwise exactly when chip_erase_weight
\* is strictly below page_erase_min_weight, the sum of the page sizes (in
\* units of 1/DATA_TRANSFER_B_PER_S s) over the materialised pages
C14_StrategySelection ==
    (Returned /\ run.res = Ok /\ builder.flash.is_erase_all_supported) =>
        /\ run.page_erase_min_weight =
              SeqSum([i \in 1..Len(builder.page_list) |-> builder.page_list[i].size])
        /\ run.strategy \in {"chip", "page"}
        /\ (run.strategy = "chip") <=>
              (run.chip_erase \/ run.chip_erase_weight < run.page_erase_min_weight)

\* equal weights without the hint: page erase is chosen
C14_Witness ==
    /\ Returned
    /\ run.res = Ok
    /\ builder.flash.is_erase_all_supported
    /\ ~run.chip_erase
    /\ run.chip_erase_weight = run.page_erase_min_weight
    /\ Len(builder.page_list) = 2
    /\ run.strategy = "page"

\* C15: program on a builder whose operation list is empty returns Ok,
\* materialises no page and makes no erase or program call on the driver
C15_EmptyListNoOp ==
    (run.done /\ builder.flash_operations = <<>>) =>
        /\ run.res = Ok
        /\ builder.page_list = <<>>
        /\ \A k \in 1..Len(run.calls) :
              run.calls[k].name \notin {"erase_all", "erase_page", "program_page"}

\* C16: add_data with address < flash_start returns
\* AddressBeforeFlashStart(address) and leaves the builder, its operation
\* list and buffered_data_size included, exactly as it was
C16_AddressBeforeFlashStart ==
    [][ (addres'.n = addres.n + 1 /\ addres'.address < builder.flash_start)
        => /\ addres'.res = AddressBeforeFlashStart(addres'.address)
           /\ builder' = builder ]_vars

C16_Witness ==
    /\ addres.n >= 2
    /\ addres.address < builder.flash_start
    /\ addres.res = AddressBeforeFlashStart(addres.address)
    /\ Len(builder.flash_operations) >= 1
    /\ builder.buffered_data_size > 0

\* C19: if a driver call made during program (init, erase_all, erase_page,
\* program_page or uninit) returned an error, program returns an error
C19_DriverErrorsBubbleUp ==
    (Returned /\ \E k \in 1..Len(run.calls) :
                    /\ run.calls[k].name \in {"init", "erase_all", "erase_page",
                                              "program_page", "uninit"}
                    /\ run.calls[k].res # Ok)
        => run.res # Ok

----------------------------------------------------------------------------
(* Properties of the loader (SpecLoader) *)

\* C1: after add_data calls with pairwise disjoint ranges inside flash
\* regions and a commit in which every algorithm call succeeds, every
\* address of the image reads back the byte that was added
C1_RoundTrip ==
    (commits.done /\ commits.fail = 0 /\ commits.res = Ok /\ addres.clean) =>
        \A c \in addres.made :
            \A i \in 1..Len(c.data) :
                FlashByte(target.mem, c.address + i - 1) = c.data[i]

\* the program calls of the last commit in which the EraseAll entry ran
ChipErased ==
    {i \in 1..Len(commits.runs) :
        \E k \in 1..Len(commits.runs[i].calls) :
            /\ commits.runs[i].calls[k].name = "erase_all"
            /\ commits.runs[i].calls[k].res.tag \in {"Ok", "EraseAll"}}

\* C6: during one commit erase_all is executed for at most one region
C6_AtMostOneChipErase == commits.done => Cardinality(ChipErased) <= 1

\* C7: commit programs the builders in ascending flash_start order and
\* passes chip_erase = true to the first one only, and only when the
\* loader's chip_erase is set
C7_ChipEraseHintOnce ==
    commits.done =>
        /\ \A i \in 2..Len(commits.runs) :
              commits.runs[i - 1].flash_start < commits.runs[i].flash_start
        /\ \A i \in 1..Len(commits.runs) :
              commits.runs[i].chip_erase = (loader.chip_erase /\ i = 1)

C7_Witness ==
    /\ commits.done
    /\ loader.chip_erase
    /\ Len(commits.runs) = 2
    /\ loader.memory_map[1].start > loader.memory_map[2].start
    /\ commits.runs[1].chip_erase
    /\ ~commits.runs[2].chip_erase

\* the regions of the map whose addresses start..start+length-1 include a
RegionsAt(memory_map, a) ==
    {i \in 1..Len(memory_map) :
        memory_map[i].start <= a /\ a < memory_map[i].start + memory_map[i].length}

\* the slices the loader has forwarded, as <<region index, position>> in the
\* operation list of that region's builder
ForwardedSlices ==
    {s \in (DOMAIN loader.builders) \X (1..MaxOps * MaxData) :
        s[2] <= Len(loader.builders[s[1]].flash_operations)}

SliceOf(s) == loader.builders[s[1]].flash_operations[s[2]]

\* C17: after a successful add_data(addr, data) on a fresh loader, every
\* byte data[i] has been forwarded exactly once, at address addr + i, to the
\* builder of the flash region whose addresses include addr + i, and no
\* forwarded slice reaches past the last address of its region
C17_LoaderRouting ==
    (addres.n = 1 /\ ~commits.done /\ addres.res = Ok) =>
        /\ \A i \in 1..Len(addres.data) :
              LET a == addres.address + i - 1
                  holders == {s \in ForwardedSlices : Covers(SliceOf(s), a)}
              IN  /\ Cardinality(holders) = 1
                  /\ \A s \in holders :
                        /\ SliceOf(s).data[a - SliceOf(s).address + 1] = addres.data[i]
                        /\ s[1] \in RegionsAt(loader.memory_map, a)
                        /\ loader.memory_map[s[1]].typ = "Flash"
        /\ \A s \in ForwardedSlices :
              SliceOf(s).address + Len(SliceOf(s).data)
                  <= loader.memory_map[s[1]].start + loader.memory_map[s[1]].length

\* the addresses of the last add_data range that lie in no flash region
OutsideFlash ==
    {a \in addres.address..(addres.address + Len(addres.data) - 1) :
        \A i \in RegionsAt(loader.memory_map, a) : loader.memory_map[i].typ # "Flash"}

\* C18: add_data returns Ok only when every address of the range lies in a
\* flash region; otherwise, with a the first address of the range outside
\* every flash region, it returns MemoryRegionNotDefined(a) when a lies in
\* no region and MemoryRegionNotFlash(a) when a lies in a region of another
\* kind
C18_RegionErrors ==
    (addres.n > 0 /\ addres.res.tag # "Panic") =>
        IF OutsideFlash = {} THEN TRUE
        ELSE LET a == CHOOSE a \in OutsideFlash : \A b \in OutsideFlash : a <= b
             IN  IF RegionsAt(loader.memory_map, a) = {}
                 THEN addres.res = MemoryRegionNotDefined(a)
                 ELSE addres.res = MemoryRegionNotFlash(a)

\* C25: get_region_for_address(addr) returns a region r exactly when
\* r.start <= addr <= r.start + r.length - 1 and None when no region
\* satisfies this: the first address of the second of two contiguous
\* regions resolves to the second, the address one past the last region
\* to None
C25_RegionLookup ==
    addres.n > 0 =>
        LET r == get_region_for_address(loader.memory_map, addres.address)
        IN  IF RegionsAt(loader.memory_map, addres.address) = {} THEN r = 0
            ELSE r \in RegionsAt(loader.memory_map, addres.address)

\* C26: a FlashLoader can be reused across add/commit cycles: after
\* commit() it holds no builders and no pending data, and add_data(B) and
\* a second commit() can follow on the same loader
C26_LoaderReuse ==
    (commits.done /\ commits.res = Ok) =>
        /\ loader.builders = <<>>
        /\ loader.total_data_size = 0
        /\ addres.n < MaxOps => ENABLED LoaderAddData
        /\ ENABLED Commit

\* C28, C29, C30: the driver calls of the last program call

AllCallsOk == \A k \in 1..Len(run.calls) : run.calls[k].res = Ok

\* a driver call without its result
Sig(name, operation, address, data) ==
    [name |-> name, operation |-> operation, address |-> address, data |-> data]

Trace ==
    [k \in 1..Len(run.calls) |->
        Sig(run.calls[k].name, run.calls[k].operation, run.calls[k].address,
            run.calls[k].data)]

\* call k lies between an init(operation) and an uninit
Bracketed(k, operation) ==
    /\ k > 1 /\ k < Len(run.calls)
    /\ Trace[k - 1] = Sig("init", operation, 0, <<>>)
    /\ Trace[k + 1] = Sig("uninit", "None", 0, <<>>)

\* the page's data is not what the target held at the page
Differs(page) ==
    \E k \in 1..Len(page.data) : page.data[k] # FlashByte(run.mem, page.address + k - 1)

\* C28: when program runs the page-erase routine and every call succeeds,
\* each page whose data differs from the target's content has been erased
\* with erase_page(page.address) and afterwards programmed with
\* program_page(page.address, page.data), each inside its own init/uninit
\* bracket, and a page whose content is the same receives neither call
C28_PageEraseExecution ==
    (Returned /\ run.strategy = "page" /\ AllCallsOk) =>
        \A i \in 1..Len(builder.page_list) :
            LET page == builder.page_list[i]
            IN  IF Differs(page)
                THEN \E e, w \in 1..Len(run.calls) :
                        /\ e < w
                        /\ Trace[e] = Sig("erase_page", "None", page.address, <<>>)
                        /\ Bracketed(e, "Erase")
                        /\ Trace[w] = Sig("program_page", "None", page.address, page.data)
                        /\ Bracketed(w, "Program")
                ELSE \A k \in 1..Len(run.calls) :
                        run.calls[k].name \in {"erase_page", "program_page"}
                            => run.calls[k].address # page.address

\* the program_page calls for the pages from i on whose data is not erased
RECURSIVE ProgramCalls(_, _)
ProgramCalls(pages, i) ==
    IF i > Len(pages) THEN <<>>
    ELSE IF \E k \in 1..Len(pages[i].data) : pages[i].data[k] # erased_byte_value
         THEN <<Sig("program_page", "None", pages[i].address, pages[i].data)>>
                  \o ProgramCalls(pages, i + 1)
         ELSE ProgramCalls(pages, i + 1)

\* C29: when program runs the chip-erase routine and every call succeeds,
\* the driver calls are exactly init(Erase), erase_all, uninit,
\* init(Program), one program_page(page.address, page.data) for each page
\* not already erased in ascending address order, uninit, cleanup
C29_ChipEraseTrace ==
    (Returned /\ run.strategy = "chip" /\ AllCallsOk) =>
        /\ \A i \in 2..Len(builder.page_list) :
              builder.page_list[i - 1].address < builder.page_list[i].address
        /\ Trace = <<Sig("init", "Erase", 0, <<>>), Sig("erase_all", "None", 0, <<>>),
                     Sig("uninit", "None", 0, <<>>), Sig("init", "Program", 0, <<>>)>>
                   \o ProgramCalls(builder.page_list, 1)
                   \o <<Sig("uninit", "None", 0, <<>>), Sig("cleanup", "None", 0, <<>>)>>

C29_Witness ==
    /\ Returned /\ run.strategy = "chip" /\ AllCallsOk
    /\ Len(builder.page_list) = 2
    /\ Len(ProgramCalls(builder.page_list, 1)) = 1
    /\ Len(run.calls) = 7

\* C30: with smart_flash false, program_page is invoked for every
\* materialised page during that program call, whatever the page's data,
\* whatever the target holds and whichever strategy is chosen
C30_ProgramEveryPage ==
    (Returned /\ run.res = Ok /\ ~run.smart_flash /\ AllCallsOk) =>
        \A i \in 1..Len(builder.page_list) :
            \E k \in 1..Len(run.calls) :
                Trace[k] = Sig("program_page", "None", builder.page_list[i].address,
                               builder.page_list[i].data)

\* the page's data does not consist solely of the erased byte value
NotErased(page) == \E k \in 1..Len(page.data) : page.data[k] # erased_byte_value

\* C31: the chip_erase_weight program compares against page_erase_min_weight
\* is the chip-erase weight plus the sum, over exactly the materialised
\* pages whose data is not erased, of program_weight +
\* len(data)/DATA_TRANSFER_B_PER_S, pages whose erased flag was unknown
\* before the computation included
C31_ChipEraseWeight ==
    (Returned /\ run.res = Ok) =>
        run.chip_erase_weight =
            Weight(DEFAULT_CHIP_ERASE_WEIGHT)
            + SeqSum([i \in 1..Len(builder.page_list) |->
                        IF NotErased(builder.page_list[i])
                        THEN Weight(builder.page_list[i].program_weight)
                             + Len(builder.page_list[i].data)
                        ELSE 0])

\* C32: when add_data (of the builder, or of the loader) or program (with
\* InvalidFlashAddress) returns an error, no target operation was made
\* during that call: no halt, no memory write, no register write, no
\* resume, no algorithm invocation, and the flash content is unchanged
C32_InputErrorsLeaveTarget ==
    [][ /\ (addres'.n # addres.n /\ addres'.res # Ok) => target' = target
        /\ (~run.done /\ run'.done /\ run'.res.tag = "InvalidFlashAddress") =>
              /\ run'.calls = <<>>
              /\ \E fail \in 0..MaxFail :
                    target' = [target EXCEPT !.calls = 0, !.fail_at = fail,
                                             !.log = <<>>] ]_vars

C32_Witness ==
    /\ run.done /\ run.res.tag = "InvalidFlashAddress"
    /\ addres.res.tag = "AddressBeforeFlashStart"
    /\ target.log = <<>> /\ target.mem = run.mem /\ target.mem # {}

\* C34: a FlashLoader.add_data call whose range overlaps data added earlier
\* in the same add/commit cycle returns an error to its caller
C34_LoaderOverlapRejected ==
    [][ ( /\ addres'.n = addres.n + 1
          /\ addres.clean
          /\ InFlash(loader.memory_map, addres'.address, addres'.data)
          /\ \E c \in addres.made :
                ~Disjoint(c.address, c.data, addres'.address, addres'.data) )
        => addres'.res # Ok ]_vars

\* C35: the page materialisation loop of program terminates for every
\* operation list add_data calls can leave behind (also after a DataOverlap
\* return, with empty data, with operations starting in mid-page): every
\* iteration of the inner loop copies at least one byte
C35_MaterialisationTerminates == run.done => run.res.tag # "Diverges"

\* C36: during program, program_page is not invoked on the target for a
\* page unless an erase covering the page (erase_all, or
\* erase_page(page.address)) completed successfully earlier in the same
\* program call, also when an init, erase or uninit call returns an error
C36_EraseBeforeProgram ==
    run.done =>
        \A k \in 1..Len(run.calls) :
            (run.calls[k].name = "program_page"
             /\ run.calls[k].res.tag \in {"Ok", "ProgramPage"}) =>
                \E j \in 1..(k - 1) :
                    /\ run.calls[j].res = Ok
                    /\ \/ run.calls[j].name = "erase_all"
                       \/ /\ run.calls[j].name = "erase_page"
                          /\ run.calls[j].address = run.calls[k].address

\* C37: add_data returns Ok exactly when the operation has been stored:
\* after Ok the list holds an operation with the address and data given and
\* buffered_data_size has grown by len(data); after DataOverlap the list
\* and buffered_data_size are as before the call
C37_AddDataAtomic ==
    [][ addres'.n = addres.n + 1 =>
          /\ addres'.res = Ok =>
                /\ FlashOperation(addres'.address, addres'.data)
                      \in Range(builder'.flash_operations)
                /\ builder'.buffered_data_size
                      = builder.buffered_data_size + Len(addres'.data)
          /\ addres'.res.tag = "DataOverlap" =>
                /\ builder'.flash_operations = builder.flash_operations
                /\ builder'.buffered_data_size = builder.buffered_data_size ]_vars

\* C38: a FlashLoader.add_data call that returns MemoryRegionNotDefined or
\* MemoryRegionNotFlash leaves the loader as it was before the call: no
\* prefix of the data was forwarded to a builder and no builder was created
C38_LoaderErrorsAtomic ==
    [][ ( /\ addres'.n = addres.n + 1
          /\ addres'.res.tag \in {"MemoryRegionNotDefined", "MemoryRegionNotFlash"} )
        => loader' = loader ]_vars

\* the first address after the builder's flash region
RegionEnd == builder.flash.region.start + builder.flash.region.length

\* C39: every page program materialises lies inside the builder's flash
\* region, the page list is strictly ascending in address, and an operation
\* holding a byte at or beyond region.start + region.length makes program
\* fail with InvalidFlashAddress
C39_PagesInsideRegion ==
    Returned =>
        /\ \A i \in 1..Len(builder.page_list) :
              /\ builder.flash.region.start <= builder.page_list[i].address
              /\ builder.page_list[i].address + builder.page_list[i].size <= RegionEnd
        /\ \A i \in 2..Len(builder.page_list) :
              builder.page_list[i - 1].address < builder.page_list[i].address
        /\ (\E i \in 1..Len(builder.flash_operations) :
                LET op == builder.flash_operations[i]
                IN  op.data # <<>> /\ op.address + Len(op.data) > RegionEnd)
              => run.res.tag = "InvalidFlashAddress"

----------------------------------------------------------------------------
(* Properties of ranges (SpecRanges) *)

\* the addresses of the ranges returned so far
Yielded == UNION {iter.out[i][1]..iter.out[i][2] : i \in 1..Len(iter.out)}

\* C27: for an ascending list of distinct addresses, ranges yields in
\* ascending order exactly the maximal runs of consecutive addresses as
\* (first, last): the ranges are disjoint and not adjacent, their union is
\* the input set, a single address a is yielded as (a, a), the empty list
\* yields nothing, and after the last range every next returns None
C27_RangesMaximalRuns ==
    /\ ~iter.panic
    /\ ~iter.late
    /\ \A i \in 1..Len(iter.out) : iter.out[i][1] <= iter.out[i][2]
    /\ \A i \in 2..Len(iter.out) : iter.out[i - 1][2] + 1 < iter.out[i][1]
    /\ Yielded \subseteq Range(iter.input)
    /\ iter.nones > 0 => Yielded = Range(iter.input)
    /\ (iter.nones = 0 /\ iter.out # <<>>) =>
          \A a \in Range(iter.input) :
              a <= iter.out[Len(iter.out)][2] => a \in Yielded

C27_Witness ==
    /\ iter.nones = MaxNone
    /\ \E i, j \in 1..Len(iter.out) :
          /\ iter.out[i][1] = iter.out[i][2]
          /\ iter.out[j][1] < iter.out[j][2]

====
